---- MODULE Spec2Model ----
(***************************************************************************)
(* The alias service (chop-dbhi/aliases): the definition registry and the  *)
(* alias store of server.go over one shared Redis database, with the       *)
(* generators of gen.go.  Every Redis command is one atomic step of the    *)
(* request worker that issues it.                                          *)
(***************************************************************************)
EXTENDS Integers, Sequences, FiniteSets, TLC

VARIABLES
    db,      \* the Redis database: a function from key strings to values
    pc,      \* per request worker: the position in the running call
    call,    \* per request worker: the locals of the running call
    prev,    \* what the most recently returned call was (a Gen summary or NoCall)
    ncalls,  \* number of calls started so far
    issued   \* per definition id: the alias its sequence generator gave last

vars == <<db, pc, call, prev, ncalls, issued>>

----------------------------------------------------------------------------
(* Bounds of the model. *)

MaxBatch == 2
MaxCalls == 4
MaxConcCalls == 3
MaxDefs == 2

----------------------------------------------------------------------------
(* Program constants. *)

MaxAttempts == 100
MinRandMinlen == 4
MinRandChars == 8

StatusUnset == 0
StatusExists == 1
StatusCreated == 2
StatusMissing == 3

ErrNil == "nil"
ErrNoDef == "no def"
ErrDefExists == "def exists"
ErrBadDefName == "name may only contain [A-Za-z0-9-_.] chars"
ErrMaxAttemptsReached == "max attempts reached"
ErrEmptyAlias == "empty alias"
\* any error of the Redis connection other than redis.ErrNil
ErrBackend == "backend error"

\* The value redigo writes for the Go value true.
Marker == "1"

seqPrefix == "s:%d"

----------------------------------------------------------------------------
(* Strings.  A name or a character set is a sequence of one-character      *)
(* strings, so that the code's per-character tests can be made.            *)

RECURSIVE Str(_)
Str(cs) == IF cs = <<>> THEN "" ELSE Head(cs) \o Str(Tail(cs))

Digit(d) ==
    CASE d = 0 -> "0" [] d = 1 -> "1" [] d = 2 -> "2" [] d = 3 -> "3"
      [] d = 4 -> "4" [] d = 5 -> "5" [] d = 6 -> "6" [] d = 7 -> "7"
      [] d = 8 -> "8" [] d = 9 -> "9"

RECURSIVE FormatUint(_)
FormatUint(n) ==
    IF n < 10 THEN Digit(n) ELSE FormatUint(n \div 10) \o Digit(n % 10)

\* strconv.FormatInt(n, 10) and fmt's %d
FormatInt(n) == IF n < 0 THEN "-" \o FormatUint(-n) ELSE FormatUint(n)

----------------------------------------------------------------------------
(* Key layout: mk(prefix, ...) of server.go.                               *)

mkInternal(s) == "_:" \o s
mkDef(name) == "d:" \o Str(name)
mkValue(id) == "v:" \o FormatInt(id)
mkSeq(id) == "s:" \o FormatInt(id)
mkKey(id, ident) == "k:" \o FormatInt(id) \o ":" \o ident
\* a reverse key that leaves the definition id out
mkAliasGlobal(id, alias) == "a:" \o alias

mkAlias(id, alias) == "a:" \o FormatInt(id) \o ":" \o alias

----------------------------------------------------------------------------
(* Redis commands on a database d.                                         *)

EXISTS(d, k) == k \in DOMAIN d

MSET(d, kv) ==
    [k \in DOMAIN d \cup DOMAIN kv |-> IF k \in DOMAIN kv THEN kv[k] ELSE d[k]]

DEL(d, ks) == [k \in DOMAIN d \ ks |-> d[k]]

INCRVal(d, k) == (IF k \in DOMAIN d THEN d[k] ELSE 0) + 1

INCR(d, k) == MSET(d, k :> INCRVal(d, k))

----------------------------------------------------------------------------
(* Definitions (gen.go Def) and their JSON form.                           *)

ZeroDef ==
    [ID |-> 0, Name |-> <<>>, Type |-> "", Offset |-> 0,
     Chars |-> <<>>, Minlen |-> 0, Prefix |-> "", Deleted |-> FALSE]

Marshal(def) ==
    [id |-> def.ID, name |-> def.Name, type |-> def.Type,
     offset |-> def.Offset, chars |-> def.Chars, minlen |-> def.Minlen,
     prefix |-> def.Prefix, archived |-> def.Deleted]

Unmarshal(b) ==
    [ID |-> b.id, Name |-> b.name, Type |-> b.type, Offset |-> b.offset,
     Chars |-> b.chars, Minlen |-> b.minlen, Prefix |-> b.prefix,
     Deleted |-> b.archived]

NameChars ==
    {"A", "B", "T", "Z", "a", "b", "t", "z", "0", "1", "2", "9", "-", "_", "."}

nameRegexMatch(name) ==
    /\ Len(name) >= 1
    /\ \A i \in 1..Len(name) : name[i] \in NameChars

\* a validation that takes any rand parameters and any type
validateDefNamesOnly(def) ==
    IF def.Name = <<>> THEN "name required"
    ELSE IF ~nameRegexMatch(def.Name) THEN ErrBadDefName
    ELSE IF def.Type = "" THEN "type required"
    ELSE ErrNil

validateDef(def) ==
    IF def.Name = <<>> THEN "name required"
    ELSE IF ~nameRegexMatch(def.Name) THEN ErrBadDefName
    ELSE IF def.Type = "" THEN "type required"
    ELSE IF def.Type = "seq" THEN ErrNil
    ELSE IF def.Type = "rand" THEN
        IF def.Minlen < MinRandMinlen THEN "rand min length too small"
        ELSE IF Len(def.Chars) < MinRandChars THEN "too few chars for rand"
        ELSE ErrNil
    ELSE IF def.Type = "uuid" THEN ErrNil
    ELSE "unknown type"

\* Server.GetDef: the name binding, then the value stored under the id.
GetDef(d, name) ==
    IF ~EXISTS(d, mkDef(name)) THEN [err |-> ErrNoDef, def |-> ZeroDef]
    ELSE IF ~EXISTS(d, mkValue(d[mkDef(name)]))
         THEN [err |-> "panic", def |-> ZeroDef]
         ELSE [err |-> ErrNil, def |-> Unmarshal(d[mkValue(d[mkDef(name)])])]

\* Server.GetDefs: KEYS v:*, then MGET; the values come in no fixed order
GetDefs(d) ==
    {d[k] : k \in {mkValue(id) : id \in 1..MaxDefs} \cap DOMAIN d}

----------------------------------------------------------------------------
(* Generators (gen.go).                                                    *)

UUIDs == {"uuid-1", "uuid-2"}

RECURSIVE RandKeys(_, _)
\* every string RandGen.New can build from n draws out of chars
RandKeys(chars, n) ==
    IF n <= 0 THEN {""}
    ELSE {k \o chars[i] : k \in RandKeys(chars, n - 1), i \in 1..Len(chars)}

RandGenNew(def) ==
    {IF def.Prefix = "" THEN k ELSE def.Prefix \o k :
        k \in RandKeys(def.Chars, def.Minlen)}

\* SeqGen.New: INCR of the key seqPrefix+Name, rendered in decimal.
SeqGenKey(def) == seqPrefix \o Str(def.Name)

\* a sequence generator that counts down
SeqGenNewDown(d, def) == FormatInt(MaxAttempts - INCRVal(d, SeqGenKey(def)))

SeqGenNew(d, def) == FormatInt(INCRVal(d, SeqGenKey(def)))

----------------------------------------------------------------------------
(* Inputs.                                                                 *)

Names == {<<"t">>, <<"t", "2">>}
Idents == {"", "a", "b"}
PutAliases == {"", "aaaa"}
Offsets == {0, 100000}
OneChar == <<"a", "a", "a", "a", "a", "a", "a", "a">>

DefInputs ==
    {[ZeroDef EXCEPT !.Name = n, !.Type = "seq", !.Offset = o] :
        n \in Names, o \in Offsets}
    \cup
    {[ZeroDef EXCEPT !.Name = n, !.Type = "rand", !.Chars = OneChar,
                     !.Minlen = MinRandMinlen] : n \in Names}

NewIdent(ident) == [Ident |-> ident, Alias |-> "", Status |-> StatusUnset]

RECURSIVE SeqsUpTo(_, _)
SeqsUpTo(S, n) ==
    IF n = 0 THEN {<<>>}
    ELSE LET R == SeqsUpTo(S, n - 1)
         IN  R \cup {Append(r, s) : r \in {q \in R : Len(q) = n - 1}, s \in S}

Batches == {b \in SeqsUpTo(Idents, MaxBatch) : Len(b) >= 1}

GenBodies == {[i \in 1..Len(b) |-> NewIdent(b[i])] : b \in Batches}

\* single-identifier requests
OneBodies == {<<NewIdent(i)>> : i \in Idents \ {""}}

\* definitions validateDef turns down, one for each of its tests
InvalidDefs ==
    {[ZeroDef EXCEPT !.Name = <<>>, !.Type = "seq"],
     [ZeroDef EXCEPT !.Name = <<"t", "!">>, !.Type = "seq"],
     [ZeroDef EXCEPT !.Name = <<"t">>, !.Type = ""],
     [ZeroDef EXCEPT !.Name = <<"t">>, !.Type = "hash"],
     [ZeroDef EXCEPT !.Name = <<"t">>, !.Type = "rand", !.Chars = OneChar,
                     !.Minlen = MinRandMinlen - 1],
     [ZeroDef EXCEPT !.Name = <<"t">>, !.Type = "rand", !.Chars = Tail(OneChar),
                     !.Minlen = MinRandMinlen]}

\* the definitions a client may send to the registry: the ones above, a
\* uuid definition under a name that uses the punctuation of the pattern,
\* a body that carries "archived": true, and a body that carries "id": 7
RegDefs ==
    DefInputs \cup InvalidDefs
        \cup {[ZeroDef EXCEPT !.Name = <<"Z", ".", "-", "_", "9">>, !.Type = "uuid"],
              [ZeroDef EXCEPT !.Name = <<"t">>, !.Type = "seq", !.Deleted = TRUE],
              [ZeroDef EXCEPT !.Name = <<"t", "2">>, !.Type = "seq", !.ID = 7]}

RegNames == Names \cup {<<"Z", ".", "-", "_", "9">>}

\* the definitions sent by concurrent clients of the registry
ConcDefs == {d \in DefInputs : d.Offset = 0}

\* the seq definitions, as created and as sent to rename one
SeqDefs == {d \in ConcDefs : d.Type = "seq"}

\* the alias store is exercised on the definitions named t
KeysNames == {<<"t">>}
KeysDefs == {d \in DefInputs : d.Name \in KeysNames}

PutPairs == {[Ident |-> i, Alias |-> a, Status |-> StatusUnset] :
                i \in Idents, a \in PutAliases}

PutBodies == {b \in SeqsUpTo(PutPairs, MaxBatch) : Len(b) >= 1}

\* requests of Put in which every pair carries an alias
KeysPutBodies == {b \in PutBodies : \A i \in DOMAIN b : b[i].Alias # ""}

\* requests of Put that assign the first number a sequence gives
SeqPutBodies == {<<[Ident |-> i, Alias |-> "1", Status |-> StatusUnset]>> :
                    i \in Idents \ {""}}

\* requests of Put that carry two different aliases
WidePutAliases == PutAliases \cup {"bbbb"}

WidePutPairs == {[Ident |-> i, Alias |-> a, Status |-> StatusUnset] :
                    i \in Idents, a \in WidePutAliases}

WidePutBodies == {b \in SeqsUpTo(WidePutPairs, MaxBatch) : Len(b) >= 1}

\* single pairs of Put with an identifier and an alias
OnePutBodies == {<<p>> : p \in {q \in WidePutPairs : q.Ident # "" /\ q.Alias # ""}}

----------------------------------------------------------------------------
(* Workers.                                                                *)

IdleCall ==
    [op |-> "none", name |-> <<>>, def |-> ZeroDef, req |-> <<>>,
     idents |-> <<>>, i |-> 0, attempt |-> 0, alias |-> "", err |-> ErrNil, before |-> <<>>]

NoCall == [op |-> "none", id |-> 0, out |-> <<>>]

Workers == DOMAIN pc

\* the forward and the reverse entries of the definition with this id
Forward(d, id, ident) == d[mkKey(id, ident)]
HasForward(d, id, ident) == EXISTS(d, mkKey(id, ident))
HasReverse(d, id, alias) == EXISTS(d, mkAlias(id, alias))

Begin(w, op, name, def, idents) ==
    [IdleCall EXCEPT !.op = op, !.name = name, !.def = def, !.req = idents,
                     !.idents = idents, !.i = 1, !.before = db]

\* the call of worker w ends with error e; its locals stay readable
\* until the response is written
Finish(w, c, e) ==
    /\ pc' = [pc EXCEPT ![w] = "done"]
    /\ call' = [call EXCEPT ![w] = [c EXCEPT !.err = e]]

\* calls are counted against MaxCalls when one worker runs them one at a
\* time, and against MaxConcCalls when workers run them concurrently
CallLimit == IF Cardinality(Workers) = 1 THEN MaxCalls ELSE MaxConcCalls

CanStart(w) == pc[w] = "idle" /\ ncalls < CallLimit

\* a handler's first steps: GetDef(name), 404 when there is no such name,
\* and only then the request body is parsed
StartKeys(w, op, names, bodies, first) ==
    \E name \in names :
        LET r == GetDef(db, name)
        IN  /\ CanStart(w)
            /\ ncalls' = ncalls + 1
            /\ IF r.err # ErrNil
               THEN Finish(w, Begin(w, op, name, r.def, <<>>), r.err)
               ELSE /\ pc' = [pc EXCEPT ![w] = first]
                    /\ \E b \in bodies :
                         call' = [call EXCEPT ![w] = Begin(w, op, name, r.def, b)]
            /\ UNCHANGED <<db, prev, issued>>

----------------------------------------------------------------------------
(* Server.Gen                                                              *)

StartGen(w, names, bodies) == StartKeys(w, "Gen", names, bodies, "gen_get")

\* a Gen that never takes the hit branch
GenHitNever(d, lookupKey) == FALSE

\* err == nil after GET lookupKey: the identifier already has an alias
GenHit(d, lookupKey) == EXISTS(d, lookupKey)

\* a loop that takes the empty identifier like any other
EmptyIdentNever(ia) == FALSE

\* ia.Ident == "": the entry Gen and Put pass over (continue)
EmptyIdent(ia) == ia.Ident = ""

\* loop head: skip an empty identifier, or GET the forward key
GenGet(w) ==
    LET c == call[w]
        ia == c.idents[c.i]
        lookupKey == mkKey(c.def.ID, ia.Ident)
    IN  /\ pc[w] = "gen_get"
        /\ IF c.i > Len(c.idents) THEN Finish(w, c, ErrNil)
           ELSE IF EmptyIdent(ia) THEN
                /\ call' = [call EXCEPT ![w].i = c.i + 1]
                /\ UNCHANGED pc
           ELSE IF GenHit(db, lookupKey) THEN
                /\ call' = [call EXCEPT ![w].idents[c.i].Alias = db[lookupKey],
                                        ![w].idents[c.i].Status = StatusExists,
                                        ![w].i = c.i + 1]
                /\ UNCHANGED pc
           ELSE /\ call' = [call EXCEPT ![w].attempt = 0]
                /\ pc' = [pc EXCEPT ![w] = "gen_new"]
        /\ UNCHANGED <<db, prev, ncalls, issued>>

\* a loop that gives up one attempt early
AttemptsExhaustedEarly(attempt) == attempt >= MaxAttempts - 1

\* attempt == MaxAttempts, tested before the attempt is counted
AttemptsExhausted(attempt) == attempt = MaxAttempts

\* a Gen that commits its last candidate when it gives up
GenNewForces(w) ==
    LET c == call[w]
    IN  /\ pc[w] = "gen_new"
        /\ IF AttemptsExhausted(c.attempt)
           THEN /\ Finish(w, c, ErrMaxAttemptsReached)
                /\ db' = MSET(db, (mkKey(c.def.ID, c.idents[c.i].Ident) :> c.alias)
                                    @@ (mkAlias(c.def.ID, c.alias) :> Marker))
           ELSE /\ pc' = [pc EXCEPT ![w] = "gen_exists"]
                /\ CASE c.def.Type = "seq" ->
                        /\ db' = INCR(db, SeqGenKey(c.def))
                        /\ call' = [call EXCEPT ![w].attempt = c.attempt + 1,
                                       ![w].alias = SeqGenNew(db, c.def)]
                     [] c.def.Type = "rand" ->
                        /\ \E a \in RandGenNew(c.def) :
                             call' = [call EXCEPT ![w].attempt = c.attempt + 1,
                                                  ![w].alias = a]
                        /\ UNCHANGED db
                     [] c.def.Type = "uuid" ->
                        /\ \E a \in UUIDs :
                             call' = [call EXCEPT ![w].attempt = c.attempt + 1,
                                                  ![w].alias = a]
                        /\ UNCHANGED db
        /\ UNCHANGED <<prev, ncalls, issued>>

\* attempt check and gen.New()
GenNew(w) ==
    LET c == call[w]
    IN  /\ pc[w] = "gen_new"
        /\ IF AttemptsExhausted(c.attempt)
           THEN Finish(w, c, ErrMaxAttemptsReached) /\ UNCHANGED db
           ELSE /\ pc' = [pc EXCEPT ![w] = "gen_exists"]
                /\ CASE c.def.Type = "seq" ->
                        /\ db' = INCR(db, SeqGenKey(c.def))
                        /\ call' = [call EXCEPT ![w].attempt = c.attempt + 1,
                                       ![w].alias = SeqGenNew(db, c.def)]
                     [] c.def.Type = "rand" ->
                        /\ \E a \in RandGenNew(c.def) :
                             call' = [call EXCEPT ![w].attempt = c.attempt + 1,
                                                  ![w].alias = a]
                        /\ UNCHANGED db
                     [] c.def.Type = "uuid" ->
                        /\ \E a \in UUIDs :
                             call' = [call EXCEPT ![w].attempt = c.attempt + 1,
                                                  ![w].alias = a]
                        /\ UNCHANGED db
        /\ UNCHANGED <<prev, ncalls, issued>>

\* a Gen that commits its candidate without looking at reverse
GenExistsBlind(w) ==
    /\ pc[w] = "gen_exists"
    /\ pc' = [pc EXCEPT ![w] = "gen_mset"]
    /\ UNCHANGED <<db, call, prev, ncalls, issued>>

\* EXISTS on the reverse key of the candidate
GenExists(w) ==
    LET c == call[w]
        checkKey == mkAlias(c.def.ID, c.alias)
    IN  /\ pc[w] = "gen_exists"
        /\ pc' = [pc EXCEPT ![w] =
                    IF EXISTS(db, checkKey) THEN "gen_new" ELSE "gen_mset"]
        /\ UNCHANGED <<db, call, prev, ncalls, issued>>

\* a Gen that stores the owner of the alias under the reverse key
GenMarkerOwner(ident) == ident

\* the value Gen stores under the reverse key
GenMarker(ident) == Marker

\* MSET lookupKey alias checkKey true
GenMset(w) ==
    LET c == call[w]
        ia == c.idents[c.i]
        lookupKey == mkKey(c.def.ID, ia.Ident)
        checkKey == mkAlias(c.def.ID, c.alias)
    IN  /\ pc[w] = "gen_mset"
        /\ db' = MSET(db, (lookupKey :> c.alias) @@ (checkKey :> GenMarker(ia.Ident)))
        /\ call' = [call EXCEPT ![w].idents[c.i].Alias = c.alias,
                                ![w].idents[c.i].Status = StatusCreated,
                                ![w].i = c.i + 1]
        /\ pc' = [pc EXCEPT ![w] = "gen_get"]
        /\ issued' = IF c.def.Type = "seq"
                     THEN (c.def.ID :> c.alias) @@ issued ELSE issued
        /\ UNCHANGED <<prev, ncalls>>

----------------------------------------------------------------------------
(* Server.Get                                                              *)

StartGet(w, names, bodies) == StartKeys(w, "Get", names, bodies, "get_get")

\* a Get that reports the status and leaves the alias as it came in
GetOneStatusOnly(d, id, ia) ==
    [ia EXCEPT !.Status = IF EXISTS(d, mkKey(id, ia.Ident))
                          THEN StatusExists ELSE StatusMissing]

\* what Get makes of one entry
GetOne(d, id, ia) ==
    IF EXISTS(d, mkKey(id, ia.Ident))
    THEN [ia EXCEPT !.Alias = d[mkKey(id, ia.Ident)], !.Status = StatusExists]
    ELSE [ia EXCEPT !.Status = StatusMissing]

\* a Get that records a miss under the forward key
GetGetCaches(w) ==
    LET c == call[w]
        lookupKey == mkKey(c.def.ID, c.idents[c.i].Ident)
    IN  /\ pc[w] = "get_get"
        /\ IF c.i > Len(c.idents) THEN Finish(w, c, ErrNil) /\ UNCHANGED db
           ELSE /\ call' = [call EXCEPT
                        ![w].idents[c.i] = GetOne(db, c.def.ID, c.idents[c.i]),
                        ![w].i = c.i + 1]
                /\ db' = IF EXISTS(db, lookupKey) THEN db
                         ELSE MSET(db, lookupKey :> "")
                /\ UNCHANGED pc
        /\ UNCHANGED <<prev, ncalls, issued>>

GetGet(w) ==
    LET c == call[w]
    IN  /\ pc[w] = "get_get"
        /\ IF c.i > Len(c.idents) THEN Finish(w, c, ErrNil)
           ELSE /\ call' = [call EXCEPT
                        ![w].idents[c.i] = GetOne(db, c.def.ID, c.idents[c.i]),
                        ![w].i = c.i + 1]
                /\ UNCHANGED pc
        /\ UNCHANGED <<db, prev, ncalls, issued>>

----------------------------------------------------------------------------
(* Server.Put                                                              *)

StartPut(w, names, bodies) == StartKeys(w, "Put", names, bodies, "put_mset")

\* a Put that never refuses a pair
PutRejectsNever(ia) == FALSE

\* ia.Alias == "": the pair Put refuses
PutRejects(ia) == ia.Alias = ""

\* a Put that leaves an identifier or an alias that is already there alone
PutArgsIfAbsent(d, id, ia) ==
    IF HasForward(d, id, ia.Ident) \/ HasReverse(d, id, ia.Alias) THEN <<>>
    ELSE (mkKey(id, ia.Ident) :> ia.Alias) @@ (mkAlias(id, ia.Alias) :> Marker)

\* MSET lookupKey ia.Alias checkKey true
PutArgs(d, id, ia) ==
    (mkKey(id, ia.Ident) :> ia.Alias) @@ (mkAlias(id, ia.Alias) :> Marker)

PutMset(w) ==
    LET c == call[w]
        ia == c.idents[c.i]
    IN  /\ pc[w] = "put_mset"
        /\ IF c.i > Len(c.idents) THEN Finish(w, c, ErrNil) /\ UNCHANGED db
           ELSE IF EmptyIdent(ia) THEN
                /\ call' = [call EXCEPT ![w].i = c.i + 1]
                /\ UNCHANGED <<pc, db>>
           ELSE IF PutRejects(ia) THEN
                Finish(w, c, ErrEmptyAlias) /\ UNCHANGED db
           ELSE /\ db' = MSET(db, PutArgs(db, c.def.ID, ia))
                /\ call' = [call EXCEPT ![w].i = c.i + 1]
                /\ UNCHANGED pc
        /\ UNCHANGED <<prev, ncalls, issued>>

----------------------------------------------------------------------------
(* Server.Del                                                              *)

StartDel(w, names, bodies) == StartKeys(w, "Del", names, bodies, "del_get")

\* a Del that returns at the first identifier it does not find
DelGetStops(w) ==
    LET c == call[w]
        lookupKey == mkKey(c.def.ID, c.idents[c.i].Ident)
    IN  /\ pc[w] = "del_get"
        /\ IF c.i > Len(c.idents) THEN Finish(w, c, ErrNil)
           ELSE IF ~EXISTS(db, lookupKey) THEN Finish(w, c, ErrNil)
           ELSE /\ call' = [call EXCEPT ![w].alias = db[lookupKey]]
                /\ pc' = [pc EXCEPT ![w] = "del_del"]
        /\ UNCHANGED <<db, prev, ncalls, issued>>

\* GET of the forward key; the alias read is kept for the DEL
DelGet(w) ==
    LET c == call[w]
        lookupKey == mkKey(c.def.ID, c.idents[c.i].Ident)
    IN  /\ pc[w] = "del_get"
        /\ IF c.i > Len(c.idents) THEN Finish(w, c, ErrNil)
           ELSE IF ~EXISTS(db, lookupKey) THEN
                /\ call' = [call EXCEPT ![w].i = c.i + 1]
                /\ UNCHANGED pc
           ELSE /\ call' = [call EXCEPT ![w].alias = db[lookupKey]]
                /\ pc' = [pc EXCEPT ![w] = "del_del"]
        /\ UNCHANGED <<db, prev, ncalls, issued>>

\* a Del that leaves the reverse entry behind
DelKeysForwardOnly(id, ident, alias) == {mkKey(id, ident)}

\* the keys Del removes for one identifier
DelKeys(id, ident, alias) == {mkKey(id, ident), mkAlias(id, alias)}

DelDel(w) ==
    LET c == call[w]
    IN  /\ pc[w] = "del_del"
        /\ db' = DEL(db, DelKeys(c.def.ID, c.idents[c.i].Ident, c.alias))
        /\ call' = [call EXCEPT ![w].i = c.i + 1]
        /\ pc' = [pc EXCEPT ![w] = "del_get"]
        /\ UNCHANGED <<prev, ncalls, issued>>

----------------------------------------------------------------------------
(* Failing Redis commands.  A command of a running call fails with an      *)
(* error other than redis.ErrNil; the reply of a command that writes may   *)
(* be lost after the server applied it, so a failed write leaves the       *)
(* database as it was or as the command makes it.                          *)

\* the call of worker w returns the backend's error, the database being d
Fails(w, d) ==
    /\ db' \in d
    /\ Finish(w, call[w], ErrBackend)
    /\ UNCHANGED <<prev, ncalls, issued>>

\* GET, INCR (seq only), EXISTS or MSET of Gen fails
GenFails(w) ==
    LET c == call[w]
        ia == c.idents[c.i]
    IN  \/ /\ pc[w] = "gen_get" /\ c.i <= Len(c.idents) /\ ~EmptyIdent(ia)
           /\ Fails(w, {db})
        \/ /\ pc[w] = "gen_new" /\ ~AttemptsExhausted(c.attempt) /\ c.def.Type = "seq"
           /\ Fails(w, {db, INCR(db, SeqGenKey(c.def))})
        \/ /\ pc[w] = "gen_exists"
           /\ Fails(w, {db})
        \/ /\ pc[w] = "gen_mset"
           /\ Fails(w, {db, MSET(db, (mkKey(c.def.ID, ia.Ident) :> c.alias)
                                      @@ (mkAlias(c.def.ID, c.alias) :> GenMarker(ia.Ident)))})

\* GET of Get fails
GetFails(w) ==
    /\ pc[w] = "get_get" /\ call[w].i <= Len(call[w].idents)
    /\ Fails(w, {db})

\* MSET of Put fails
PutFails(w) ==
    LET c == call[w]
        ia == c.idents[c.i]
    IN  /\ pc[w] = "put_mset" /\ c.i <= Len(c.idents)
        /\ ~EmptyIdent(ia) /\ ~PutRejects(ia)
        /\ Fails(w, {db, MSET(db, PutArgs(db, c.def.ID, ia))})

\* a Del that takes every error of its GET for a missing key
DelFailsSkips(w) ==
    LET c == call[w]
    IN  \/ /\ pc[w] = "del_get" /\ c.i <= Len(c.idents)
           /\ call' = [call EXCEPT ![w].i = c.i + 1]
           /\ UNCHANGED <<db, pc, prev, ncalls, issued>>
        \/ /\ pc[w] = "del_del"
           /\ Fails(w, {db, DEL(db, DelKeys(c.def.ID, c.idents[c.i].Ident, c.alias))})

\* GET or DEL of Del fails
DelFails(w) ==
    LET c == call[w]
    IN  \/ /\ pc[w] = "del_get" /\ c.i <= Len(c.idents)
           /\ Fails(w, {db})
        \/ /\ pc[w] = "del_del"
           /\ Fails(w, {db, DEL(db, DelKeys(c.def.ID, c.idents[c.i].Ident, c.alias))})

----------------------------------------------------------------------------
(* Server.CreateDef                                                        *)

\* a CreateDef that takes every name for free
DefTakenNever(d, name) == FALSE

\* EXISTS defKey
DefTaken(d, name) == EXISTS(d, mkDef(name))

\* ids handed out by INCR and not yet stored, and calls about to ask for one
PendingIds == Cardinality({v \in Workers : pc[v] = "create_incr"})

\* validateDef, then EXISTS on the name key
StartCreateDef(w, defs) ==
    \E def \in defs :
        LET c == Begin(w, "CreateDef", def.Name, def, <<>>)
            e == validateDef(def)
        IN  /\ CanStart(w)
            /\ INCRVal(db, mkInternal("def:id")) + PendingIds <= MaxDefs
            /\ ncalls' = ncalls + 1
            /\ IF e # ErrNil THEN Finish(w, c, e)
               ELSE IF DefTaken(db, def.Name) THEN Finish(w, c, ErrDefExists)
               ELSE /\ pc' = [pc EXCEPT ![w] = "create_incr"]
                    /\ call' = [call EXCEPT ![w] = c]
            /\ UNCHANGED <<db, prev, issued>>

\* a CreateDef that numbers a definition by the count of stored values
CreateDefIncrByCount(w) ==
    LET defIdKey == mkInternal("def:id")
        id == Cardinality(GetDefs(db)) + 1
    IN  /\ pc[w] = "create_incr"
        /\ db' = MSET(db, defIdKey :> id)
        /\ call' = [call EXCEPT ![w].def.ID = id]
        /\ pc' = [pc EXCEPT ![w] = "create_mset"]
        /\ UNCHANGED <<prev, ncalls, issued>>

\* INCR _:def:id
CreateDefIncr(w) ==
    LET defIdKey == mkInternal("def:id")
    IN  /\ pc[w] = "create_incr"
        /\ db' = INCR(db, defIdKey)
        /\ call' = [call EXCEPT ![w].def.ID = INCRVal(db, defIdKey)]
        /\ pc' = [pc EXCEPT ![w] = "create_mset"]
        /\ UNCHANGED <<prev, ncalls, issued>>

\* a CreateDef whose MSET binds the name and stores nothing else
CreateDefArgsNameOnly(def) == mkDef(def.Name) :> def.ID

\* the keys CreateDef writes in its MSET
CreateDefArgs(def) ==
    LET args == (mkDef(def.Name) :> def.ID) @@ (mkValue(def.ID) :> Marshal(def))
    IN  IF def.Type = "seq" THEN args @@ (mkSeq(def.ID) :> def.Offset) ELSE args

CreateDefMset(w) ==
    LET c == call[w]
    IN  /\ pc[w] = "create_mset"
        /\ db' = MSET(db, CreateDefArgs(c.def))
        /\ Finish(w, c, ErrNil)
        /\ UNCHANGED <<prev, ncalls, issued>>

----------------------------------------------------------------------------
(* makeUpdateDefHandler and Server.UpdateDef                               *)

\* a decoding that takes the id from the request body
DecodeOverBodyId(old, body) == body

\* the request body decoded over the stored definition, the id kept
DecodeOver(old, body) == [body EXCEPT !.ID = old.ID]

\* GetDef(name), decode, validateDef
StartUpdateDef(w, names, defs) ==
    \E name \in names, body \in defs :
        LET r == GetDef(db, name)
            def == DecodeOver(r.def, body)
            c == Begin(w, "UpdateDef", name, def, <<body>>)
            e == validateDef(def)
        IN  /\ CanStart(w)
            /\ ncalls' = ncalls + 1
            /\ IF r.err # ErrNil THEN Finish(w, c, r.err)
               ELSE IF e # ErrNil THEN Finish(w, c, e)
               ELSE /\ pc' = [pc EXCEPT ![w] =
                          IF name # def.Name THEN "update_del" ELSE "update_mset"]
                    /\ call' = [call EXCEPT ![w] = c]
            /\ UNCHANGED <<db, prev, issued>>

\* an UpdateDef that keeps the binding of the previous name
UpdateDefKeepsOld(name) == {}

\* the key UpdateDef deletes when the name changes
UpdateDefOldKeys(name) == {mkDef(name)}

\* DEL of the previous name key
UpdateDefDel(w) ==
    /\ pc[w] = "update_del"
    /\ db' = DEL(db, UpdateDefOldKeys(call[w].name))
    /\ pc' = [pc EXCEPT ![w] = "update_mset"]
    /\ UNCHANGED <<call, prev, ncalls, issued>>

UpdateDefMset(w) ==
    LET c == call[w]
    IN  /\ pc[w] = "update_mset"
        /\ db' = MSET(db, (mkDef(c.def.Name) :> c.def.ID)
                            @@ (mkValue(c.def.ID) :> Marshal(c.def)))
        /\ Finish(w, c, ErrNil)
        /\ UNCHANGED <<prev, ncalls, issued>>

----------------------------------------------------------------------------
(* Server.DelDef                                                           *)

StartDelDef(w, names) == StartKeys(w, "DelDef", names, {<<>>}, "deldef_exec")

\* a DelDef that leaves the name bound
DelDefKeysNone(name) == {}

\* DEL of the name key
DelDefKeys(name) == {mkDef(name)}

\* a DelDef that also removes the forward entries of the definition
DelDefExecScrubs(w) ==
    LET c == call[w]
        def == [c.def EXCEPT !.Deleted = TRUE]
    IN  /\ pc[w] = "deldef_exec"
        /\ db' = MSET(DEL(db, DelDefKeys(c.name) \cup {mkKey(def.ID, x) : x \in Idents}),
                      mkValue(def.ID) :> Marshal(def))
        /\ Finish(w, [c EXCEPT !.def = def], ErrNil)
        /\ UNCHANGED <<prev, ncalls, issued>>

\* MULTI; DEL name key; SET value key; EXEC
DelDefExec(w) ==
    LET c == call[w]
        def == [c.def EXCEPT !.Deleted = TRUE]
    IN  /\ pc[w] = "deldef_exec"
        /\ db' = MSET(DEL(db, DelDefKeys(c.name)), mkValue(def.ID) :> Marshal(def))
        /\ Finish(w, [c EXCEPT !.def = def], ErrNil)
        /\ UNCHANGED <<prev, ncalls, issued>>

----------------------------------------------------------------------------
(* makeGenHandler: the response in the line-delimited encoding.  A line is *)
(* what fmt.Fprintln writes, without the newline: its operands separated   *)
(* by a space.                                                             *)

RECURSIVE WriteGenLines(_)
\* the lines written after Server.Gen
WriteGenLines(idents) ==
    IF idents = <<>> THEN <<>>
    ELSE LET ia == Head(idents)
             line == CASE ia.Status = StatusExists -> <<"0 " \o ia.Alias>>
                       [] ia.Status = StatusCreated -> <<"1 " \o ia.Alias>>
                       [] OTHER -> <<>>
         IN  line \o WriteGenLines(Tail(idents))

RECURSIVE WriteGetLines(_)
\* the lines written after Server.Get (query parameter ro)
WriteGetLines(idents) ==
    IF idents = <<>> THEN <<>>
    ELSE LET ia == Head(idents)
             line == CASE ia.Status = StatusExists -> <<"1 " \o ia.Alias>>
                       [] ia.Status = StatusMissing -> <<"0">>
                       [] OTHER -> <<>>
         IN  line \o WriteGetLines(Tail(idents))

----------------------------------------------------------------------------
(* The response is written and the worker is free again.                   *)

Summary(c) ==
    IF c.op = "Gen" /\ c.err = ErrNil
    THEN [op |-> "Gen", id |-> c.def.ID, out |-> c.idents]
    ELSE NoCall

Return(w) ==
    /\ pc[w] = "done"
    /\ pc' = [pc EXCEPT ![w] = "idle"]
    /\ call' = [call EXCEPT ![w] = IdleCall]
    /\ prev' = Summary(call[w])
    /\ UNCHANGED <<db, ncalls, issued>>

----------------------------------------------------------------------------------------------------------------------------------------------------
(* The registry with the alias store behind it: one worker, so calls run   *)
(* one at a time, on an initially empty database.                          *)

InitWith(W) ==
    /\ db = <<>>
    /\ pc = [w \in W |-> "idle"]
    /\ call = [w \in W |-> IdleCall]
    /\ prev = NoCall
    /\ ncalls = 0
    /\ issued = <<>>

Init == InitWith({1})

Next ==
    \/ \E w \in Workers : StartCreateDef(w, DefInputs)
    \/ \E w \in Workers : CreateDefIncr(w)
    \/ \E w \in Workers : CreateDefMset(w)
    \/ \E w \in Workers : StartUpdateDef(w, Names, DefInputs)
    \/ \E w \in Workers : UpdateDefDel(w)
    \/ \E w \in Workers : UpdateDefMset(w)
    \/ \E w \in Workers : StartDelDef(w, Names)
    \/ \E w \in Workers : DelDefExec(w)
    \/ \E w \in Workers : StartGen(w, Names, OneBodies)
    \/ \E w \in Workers : GenGet(w)
    \/ \E w \in Workers : GenNew(w)
    \/ \E w \in Workers : GenExists(w)
    \/ \E w \in Workers : GenMset(w)
    \/ \E w \in Workers : StartGet(w, Names, OneBodies)
    \/ \E w \in Workers : GetGet(w)
    \/ \E w \in Workers : Return(w)

Spec == Init /\ [][Next]_vars

----------------------------------------------------------------------------
(* The alias store of one definition: one worker.  Put is called with     *)
(* well-formed pairs here; SpecPut covers the pairs it refuses.            *)

NextKeys ==
    \/ \E w \in Workers : StartCreateDef(w, KeysDefs)
    \/ \E w \in Workers : CreateDefIncr(w)
    \/ \E w \in Workers : CreateDefMset(w)
    \/ \E w \in Workers : StartGen(w, KeysNames, GenBodies)
    \/ \E w \in Workers : GenGet(w)
    \/ \E w \in Workers : GenNew(w)
    \/ \E w \in Workers : GenExists(w)
    \/ \E w \in Workers : GenMset(w)
    \/ \E w \in Workers : StartGet(w, KeysNames, GenBodies)
    \/ \E w \in Workers : GetGet(w)
    \/ \E w \in Workers : StartPut(w, KeysNames, KeysPutBodies)
    \/ \E w \in Workers : PutMset(w)
    \/ \E w \in Workers : StartDel(w, KeysNames, GenBodies)
    \/ \E w \in Workers : DelGet(w)
    \/ \E w \in Workers : DelDel(w)
    \/ \E w \in Workers : Return(w)

SpecKeys == Init /\ [][NextKeys]_vars

----------------------------------------------------------------------------
(* Concurrent callers of Gen: two request workers share the database and   *)
(* their Redis commands interleave.                                        *)

InitConc == InitWith({1, 2})

NextConc ==
    \/ \E w \in Workers : StartCreateDef(w, KeysDefs)
    \/ \E w \in Workers : CreateDefIncr(w)
    \/ \E w \in Workers : CreateDefMset(w)
    \/ \E w \in Workers : StartGen(w, KeysNames, OneBodies)
    \/ \E w \in Workers : GenGet(w)
    \/ \E w \in Workers : GenNew(w)
    \/ \E w \in Workers : GenExists(w)
    \/ \E w \in Workers : GenMset(w)
    \/ \E w \in Workers : Return(w)

SpecConc == InitConc /\ [][NextConc]_vars

----------------------------------------------------------------------------
(* Generation and lookup in batches: one worker, Gen and Get only.         *)

NextBatch ==
    \/ \E w \in Workers : StartCreateDef(w, KeysDefs)
    \/ \E w \in Workers : CreateDefIncr(w)
    \/ \E w \in Workers : CreateDefMset(w)
    \/ \E w \in Workers : StartGen(w, KeysNames, GenBodies)
    \/ \E w \in Workers : GenGet(w)
    \/ \E w \in Workers : GenNew(w)
    \/ \E w \in Workers : GenExists(w)
    \/ \E w \in Workers : GenMset(w)
    \/ \E w \in Workers : StartGet(w, KeysNames, GenBodies)
    \/ \E w \in Workers : GetGet(w)
    \/ \E w \in Workers : Return(w)

SpecBatch == Init /\ [][NextBatch]_vars

----------------------------------------------------------------------------
(* Generation and deletion without explicit assignment: one worker.        *)

NextGenDel ==
    \/ \E w \in Workers : StartCreateDef(w, KeysDefs)
    \/ \E w \in Workers : CreateDefIncr(w)
    \/ \E w \in Workers : CreateDefMset(w)
    \/ \E w \in Workers : StartGen(w, KeysNames, GenBodies)
    \/ \E w \in Workers : GenGet(w)
    \/ \E w \in Workers : GenNew(w)
    \/ \E w \in Workers : GenExists(w)
    \/ \E w \in Workers : GenMset(w)
    \/ \E w \in Workers : StartDel(w, KeysNames, GenBodies)
    \/ \E w \in Workers : DelGet(w)
    \/ \E w \in Workers : DelDel(w)
    \/ \E w \in Workers : Return(w)

SpecGenDel == Init /\ [][NextGenDel]_vars

----------------------------------------------------------------------------
(* The life of one seq definition: one worker, starting from the database  *)
(* CreateDef leaves for a seq definition named t (ids start at 1).         *)

CreatedDb(def) ==
    MSET(INCR(<<>>, mkInternal("def:id")), CreateDefArgs([def EXCEPT !.ID = 1]))

InitSeq ==
    /\ \E def \in {d \in KeysDefs : d.Type = "seq"} : db = CreatedDb(def)
    /\ pc = [w \in {1} |-> "idle"]
    /\ call = [w \in {1} |-> IdleCall]
    /\ prev = NoCall
    /\ ncalls = 0
    /\ issued = <<>>

NextSeq ==
    \/ \E w \in Workers : StartUpdateDef(w, Names, SeqDefs)
    \/ \E w \in Workers : UpdateDefDel(w)
    \/ \E w \in Workers : UpdateDefMset(w)
    \/ \E w \in Workers : StartGen(w, Names, OneBodies)
    \/ \E w \in Workers : GenGet(w)
    \/ \E w \in Workers : GenNew(w)
    \/ \E w \in Workers : GenExists(w)
    \/ \E w \in Workers : GenMset(w)
    \/ \E w \in Workers : StartPut(w, Names, SeqPutBodies)
    \/ \E w \in Workers : PutMset(w)
    \/ \E w \in Workers : StartDel(w, Names, OneBodies)
    \/ \E w \in Workers : DelGet(w)
    \/ \E w \in Workers : DelDel(w)
    \/ \E w \in Workers : Return(w)

SpecSeq == InitSeq /\ [][NextSeq]_vars

----------------------------------------------------------------------------
(* Explicit assignment next to generation: one worker, Put with two        *)
(* aliases to choose from.                                                 *)

NextPut ==
    \/ \E w \in Workers : StartCreateDef(w, KeysDefs)
    \/ \E w \in Workers : CreateDefIncr(w)
    \/ \E w \in Workers : CreateDefMset(w)
    \/ \E w \in Workers : StartGen(w, KeysNames, OneBodies)
    \/ \E w \in Workers : GenGet(w)
    \/ \E w \in Workers : GenNew(w)
    \/ \E w \in Workers : GenExists(w)
    \/ \E w \in Workers : GenMset(w)
    \/ \E w \in Workers : StartPut(w, KeysNames, WidePutBodies)
    \/ \E w \in Workers : PutMset(w)
    \/ \E w \in Workers : StartGet(w, KeysNames, OneBodies)
    \/ \E w \in Workers : GetGet(w)
    \/ \E w \in Workers : Return(w)

SpecPut == Init /\ [][NextPut]_vars

----------------------------------------------------------------------------
(* The registry on its own: one worker, every kind of definition body.     *)

NextReg ==
    \/ \E w \in Workers : StartCreateDef(w, RegDefs)
    \/ \E w \in Workers : CreateDefIncr(w)
    \/ \E w \in Workers : CreateDefMset(w)
    \/ \E w \in Workers : StartUpdateDef(w, RegNames, RegDefs)
    \/ \E w \in Workers : UpdateDefDel(w)
    \/ \E w \in Workers : UpdateDefMset(w)
    \/ \E w \in Workers : StartDelDef(w, RegNames)
    \/ \E w \in Workers : DelDefExec(w)
    \/ \E w \in Workers : Return(w)

SpecReg == Init /\ [][NextReg]_vars

----------------------------------------------------------------------------
(* The registry under concurrent requests: two workers.                    *)

NextRegConc ==
    \/ \E w \in Workers : StartCreateDef(w, ConcDefs)
    \/ \E w \in Workers : CreateDefIncr(w)
    \/ \E w \in Workers : CreateDefMset(w)
    \/ \E w \in Workers : StartUpdateDef(w, Names, ConcDefs)
    \/ \E w \in Workers : UpdateDefDel(w)
    \/ \E w \in Workers : UpdateDefMset(w)
    \/ \E w \in Workers : StartDelDef(w, Names)
    \/ \E w \in Workers : DelDefExec(w)
    \/ \E w \in Workers : Return(w)

SpecRegConc == InitConc /\ [][NextRegConc]_vars

----------------------------------------------------------------------------
(* Two definitions side by side: one worker calls Gen, Put and Del on the  *)
(* definitions named t (id 1) and t2 (id 2), which are there from the      *)
(* start.                                                                  *)

\* the database after CreateDef of d1 and then of d2
TwoDefsDb(d1, d2) ==
    MSET(INCR(CreatedDb(d1), mkInternal("def:id")),
         CreateDefArgs([d2 EXCEPT !.ID = 2]))

InitTwo ==
    /\ \E d1, d2 \in ConcDefs :
          /\ d1.Name = <<"t">> /\ d2.Name = <<"t", "2">>
          /\ db = TwoDefsDb(d1, d2)
    /\ pc = [w \in {1} |-> "idle"]
    /\ call = [w \in {1} |-> IdleCall]
    /\ prev = NoCall
    /\ ncalls = 0
    /\ issued = <<>>

NextTwo ==
    \/ \E w \in Workers : StartGen(w, Names, OneBodies)
    \/ \E w \in Workers : GenGet(w)
    \/ \E w \in Workers : GenNew(w)
    \/ \E w \in Workers : GenExists(w)
    \/ \E w \in Workers : GenMset(w)
    \/ \E w \in Workers : StartPut(w, Names, OnePutBodies)
    \/ \E w \in Workers : PutMset(w)
    \/ \E w \in Workers : StartDel(w, Names, OneBodies)
    \/ \E w \in Workers : DelGet(w)
    \/ \E w \in Workers : DelDel(w)
    \/ \E w \in Workers : Return(w)

SpecTwo == InitTwo /\ [][NextTwo]_vars

----------------------------------------------------------------------------
(* A name given up and taken again: one worker, starting from the database *)
(* after CreateDef of the definition named t, calls Gen and Get on it,     *)
(* deletes it and creates a definition of that name anew.                  *)

InitRedef ==
    /\ \E def \in KeysDefs : db = CreatedDb(def)
    /\ pc = [w \in {1} |-> "idle"]
    /\ call = [w \in {1} |-> IdleCall]
    /\ prev = NoCall
    /\ ncalls = 0
    /\ issued = <<>>

NextRedef ==
    \/ \E w \in Workers : StartCreateDef(w, KeysDefs)
    \/ \E w \in Workers : CreateDefIncr(w)
    \/ \E w \in Workers : CreateDefMset(w)
    \/ \E w \in Workers : StartDelDef(w, KeysNames)
    \/ \E w \in Workers : DelDefExec(w)
    \/ \E w \in Workers : StartGen(w, KeysNames, OneBodies)
    \/ \E w \in Workers : GenGet(w)
    \/ \E w \in Workers : GenNew(w)
    \/ \E w \in Workers : GenExists(w)
    \/ \E w \in Workers : GenMset(w)
    \/ \E w \in Workers : StartGet(w, KeysNames, OneBodies)
    \/ \E w \in Workers : GetGet(w)
    \/ \E w \in Workers : Return(w)

SpecRedef == InitRedef /\ [][NextRedef]_vars

----------------------------------------------------------------------------
(* Gen on its own, run to completion: one worker, starting from the        *)
(* database after CreateDef of the definition named t.  A request that has *)
(* started is served to its end: the handler's goroutine keeps running and *)
(* every Redis command returns.                                            *)

GenWorkers == {1}

\* requests of one identifier, and of two different ones the second of
\* which is not empty
ShortBodies ==
    OneBodies \cup {b \in {<<NewIdent(x), NewIdent(y)>> : x \in Idents, y \in Idents} :
                        b[2].Ident \notin {b[1].Ident, ""}}

InitGenOnly ==
    /\ \E def \in KeysDefs : db = CreatedDb(def)
    /\ pc = [w \in GenWorkers |-> "idle"]
    /\ call = [w \in GenWorkers |-> IdleCall]
    /\ prev = NoCall
    /\ ncalls = 0
    /\ issued = <<>>

NextGenOnly ==
    \/ \E w \in Workers : StartGen(w, KeysNames, ShortBodies)
    \/ \E w \in Workers : GenGet(w)
    \/ \E w \in Workers : GenNew(w)
    \/ \E w \in Workers : GenExists(w)
    \/ \E w \in Workers : GenMset(w)
    \/ \E w \in Workers : Return(w)

GenRuns(w) == GenGet(w) \/ GenNew(w) \/ GenExists(w) \/ GenMset(w)

SpecGenFair ==
    /\ InitGenOnly /\ [][NextGenOnly]_vars
    /\ \A w \in GenWorkers : WF_vars(GenRuns(w))

----------------------------------------------------------------------------
(* The alias store on a failing backend: one worker, starting from the     *)
(* database after CreateDef of the definition named t; any Redis command   *)
(* of Gen, Get, Put and Del may fail.                                      *)

NextFail ==
    \/ \E w \in Workers : StartGen(w, KeysNames, ShortBodies)
    \/ \E w \in Workers : GenGet(w)
    \/ \E w \in Workers : GenNew(w)
    \/ \E w \in Workers : GenExists(w)
    \/ \E w \in Workers : GenMset(w)
    \/ \E w \in Workers : GenFails(w)
    \/ \E w \in Workers : StartGet(w, KeysNames, ShortBodies)
    \/ \E w \in Workers : GetGet(w)
    \/ \E w \in Workers : GetFails(w)
    \/ \E w \in Workers : StartPut(w, KeysNames, OnePutBodies)
    \/ \E w \in Workers : PutMset(w)
    \/ \E w \in Workers : PutFails(w)
    \/ \E w \in Workers : StartDel(w, KeysNames, ShortBodies)
    \/ \E w \in Workers : DelGet(w)
    \/ \E w \in Workers : DelDel(w)
    \/ \E w \in Workers : DelFails(w)
    \/ \E w \in Workers : Return(w)

SpecFail == InitGenOnly /\ [][NextFail]_vars

----------------------------------------------------------------------------
(* Get called on entries that carry an alias and a status already, as on a *)
(* list a Gen returned earlier: one worker, starting from the database     *)
(* after CreateDef of the definition named t.                              *)

CarriedBodies ==
    {<<[Ident |-> x, Alias |-> a, Status |-> st]>> :
        x \in Idents, a \in WidePutAliases,
        st \in {StatusUnset, StatusExists, StatusCreated, StatusMissing}}

NextCarried ==
    \/ \E w \in Workers : StartGen(w, KeysNames, OneBodies)
    \/ \E w \in Workers : GenGet(w)
    \/ \E w \in Workers : GenNew(w)
    \/ \E w \in Workers : GenExists(w)
    \/ \E w \in Workers : GenMset(w)
    \/ \E w \in Workers : StartDel(w, KeysNames, OneBodies)
    \/ \E w \in Workers : DelGet(w)
    \/ \E w \in Workers : DelDel(w)
    \/ \E w \in Workers : StartGet(w, KeysNames, CarriedBodies)
    \/ \E w \in Workers : GetGet(w)
    \/ \E w \in Workers : Return(w)

SpecCarried == InitGenOnly /\ [][NextCarried]_vars

----------------------------------------------------------------------------
(* The alias store under concurrent requests: two workers call Gen, Put    *)
(* and Del with one identifier each on the definition named t, which is    *)
(* there from the start.                                                   *)

InitDelConc ==
    /\ \E def \in KeysDefs : db = CreatedDb(def)
    /\ pc = [w \in {1, 2} |-> "idle"]
    /\ call = [w \in {1, 2} |-> IdleCall]
    /\ prev = NoCall
    /\ ncalls = 0
    /\ issued = <<>>

NextDelConc ==
    \/ \E w \in Workers : StartGen(w, KeysNames, OneBodies)
    \/ \E w \in Workers : GenGet(w)
    \/ \E w \in Workers : GenNew(w)
    \/ \E w \in Workers : GenExists(w)
    \/ \E w \in Workers : GenMset(w)
    \/ \E w \in Workers : StartPut(w, KeysNames, OnePutBodies)
    \/ \E w \in Workers : PutMset(w)
    \/ \E w \in Workers : StartDel(w, KeysNames, OneBodies)
    \/ \E w \in Workers : DelGet(w)
    \/ \E w \in Workers : DelDel(w)
    \/ \E w \in Workers : Return(w)

SpecDelConc == InitDelConc /\ [][NextDelConc]_vars

----------------------------------------------------------------------------
(* Vocabulary of the properties.                                           *)

Done(w, op) == pc[w] = "done" /\ call[w].op = op /\ call[w].err # ErrNoDef

AllIdle == \A w \in Workers : pc[w] = "idle"

DefIds == 1..MaxDefs

\* no sequence counter gets past this value within the call limits
SeqLimit == 2 * MaxCalls * MaxBatch

\* every alias a reverse or forward entry can hold
AliasUniverse ==
    (WidePutAliases \ {""}) \cup UUIDs
        \cup UNION {RandGenNew(def) : def \in {x \in DefInputs : x.Type = "rand"}}
        \cup {FormatInt(n) : n \in 1..SeqLimit}

ReverseKeys == {mkAlias(id, a) : id \in DefIds, a \in AliasUniverse}

\* the keys the registry and the alias store may have written
KnownKeys ==
    {mkInternal("def:id")}
        \cup {mkDef(n) : n \in Names} \cup {seqPrefix \o Str(n) : n \in Names}
        \cup {mkValue(id) : id \in DefIds} \cup {mkSeq(id) : id \in DefIds}
        \cup {mkKey(id, x) : id \in DefIds, x \in Idents}
        \cup ReverseKeys

\* no key lies outside the key layout: the quantifiers below see every entry
KeysKnown == DOMAIN db \subseteq KnownKeys

Holders(d, id, alias) ==
    {x \in Idents : HasForward(d, id, x) /\ Forward(d, id, x) = alias}

IdentsOf(list) == [i \in DOMAIN list |-> list[i].Ident]

\* the first position of identifier x in a batch
FirstOcc(list, x) ==
    CHOOSE i \in DOMAIN list :
        list[i].Ident = x /\ \A j \in DOMAIN list : list[j].Ident = x => i <= j

FreshIn(c) ==
    {x \in {c.req[i].Ident : i \in DOMAIN c.req} :
        x # "" /\ ~HasForward(c.before, c.def.ID, x)}

\* the call of worker w repeats the request of the Gen call that returned
\* just before it, on the same definition
RepeatsGen(c) ==
    /\ prev.op = "Gen"
    /\ prev.id = c.def.ID
    /\ IdentsOf(prev.out) = IdentsOf(c.req)

\* second of two Gen calls: every identifier is found, with the alias the
\* first call returned, and the database is as it was before the call
SecondGenExists(c) ==
    RepeatsGen(c) =>
        /\ c.err = ErrNil
        /\ \A i \in DOMAIN c.idents :
              c.idents[i].Ident # "" =>
                  /\ c.idents[i].Status = StatusExists
                  /\ c.idents[i].Alias = prev.out[i].Alias
        /\ db = c.before

----------------------------------------------------------------------------
----------------------------------------------------------------------------
(* C2: under interleaved Gen calls on one definition, without Put, no two  *)
(* distinct identifiers hold the same alias in the forward table.          *)
C2_UniqueAliases ==
    \A id \in DefIds : \A x, y \in Idents :
        (x # y /\ HasForward(db, id, x) /\ HasForward(db, id, y))
            => Forward(db, id, x) # Forward(db, id, y)

----------------------------------------------------------------------------
(* C3: all Gen calls for the same identifier under one definition return   *)
(* the same alias, and a forward entry written by Gen is never replaced by *)
(* a different alias.                                                      *)
C3_SameAlias ==
    /\ [] (\A v, w \in Workers :
            (Done(v, "Gen") /\ Done(w, "Gen") /\ call[v].err = ErrNil
                /\ call[w].err = ErrNil /\ call[v].def.ID = call[w].def.ID)
            => \A i \in DOMAIN call[v].idents, j \in DOMAIN call[w].idents :
                  (call[v].idents[i].Ident = call[w].idents[j].Ident
                      /\ call[v].idents[i].Ident # "")
                  => call[v].idents[i].Alias = call[w].idents[j].Alias)
    /\ [][\A id \in DefIds, x \in Idents :
            (HasForward(db, id, x) /\ HasForward(db', id, x))
                => Forward(db', id, x) = Forward(db, id, x)]_vars

----------------------------------------------------------------------------
(* C4: after every completed Gen, Put or Del call the tables agree: an     *)
(* alias is in reverse iff some identifier maps to it in forward.          *)
C4_TablesAgree ==
    AllIdle =>
        \A id \in DefIds, a \in AliasUniverse :
            HasReverse(db, id, a) <=> Holders(db, id, a) # {}

----------------------------------------------------------------------------
(* C5: in a seq definition created with offset N the k-th alias created by *)
(* Gen is the decimal rendering of N + k.                                  *)
C5_OffsetSeeds ==
    \A w \in Workers :
        (Done(w, "Gen") /\ call[w].err = ErrNil /\ call[w].def.Type = "seq"
            /\ EXISTS(db, mkSeq(call[w].def.ID)))
        => \A i \in DOMAIN call[w].idents :
              call[w].idents[i].Status = StatusCreated =>
                  call[w].idents[i].Alias =
                      FormatInt(db[mkSeq(call[w].def.ID)]
                          + Cardinality({x \in Idents :
                                HasForward(db, call[w].def.ID, x)}))

----------------------------------------------------------------------------
(* C6: after Gen has returned status created for every entry of a batch,   *)
(* Get on the same identifiers returns status exists for every entry, with *)
(* the alias Gen returned for it.                                          *)
GenCreatedAll ==
    /\ prev.op = "Gen"
    /\ \A i \in DOMAIN prev.out :
          prev.out[i].Status = StatusCreated /\ prev.out[i].Alias # ""

C6_GetAfterGen ==
    \A w \in Workers :
        (Done(w, "Get") /\ GenCreatedAll /\ RepeatsGen(call[w]))
        => /\ call[w].err = ErrNil
           /\ \A i \in DOMAIN call[w].idents :
                 /\ call[w].idents[i].Status = StatusExists
                 /\ call[w].idents[i].Alias = prev.out[i].Alias

C6_Witness ==
    \E w \in Workers :
        /\ Done(w, "Get") /\ GenCreatedAll /\ RepeatsGen(call[w])
        /\ Len(call[w].idents) >= 2
        /\ call[w].idents[1].Alias # call[w].idents[2].Alias

----------------------------------------------------------------------------
(* C7: in a rand definition that can produce exactly one alias, once one   *)
(* identifier holds that alias every Gen call for a different identifier   *)
(* without a forward entry returns ErrMaxAttemptsReached and writes        *)
(* nothing.                                                                *)
C7_Exhausted ==
    \A w \in Workers :
        LET c == call[w]
        IN  (/\ Done(w, "Gen")
             /\ c.def.Type = "rand"
             /\ Cardinality(RandGenNew(c.def)) = 1
             /\ \E a \in RandGenNew(c.def), x \in FreshIn(c) :
                   Holders(c.before, c.def.ID, a) \ {x} # {})
            => (c.err = ErrMaxAttemptsReached /\ db = c.before)

----------------------------------------------------------------------------
(* C8: Del of identifiers that have a forward entry removes their forward  *)
(* entries and the reverse entries of their aliases and nothing else:      *)
(* afterwards Get returns missing for them and the unchanged result for    *)
(* every other identifier.                                                 *)
Deleted(c) ==
    {x \in {c.req[i].Ident : i \in DOMAIN c.req} :
        HasForward(c.before, c.def.ID, x)}

C8_DelFrame ==
    \A w \in Workers :
        (Done(w, "Del") /\ call[w].err = ErrNil) =>
            LET c == call[w]
                id == c.def.ID
            IN  /\ DOMAIN db = DOMAIN c.before \
                      UNION {{mkKey(id, x), mkAlias(id, Forward(c.before, id, x))} :
                                x \in Deleted(c)}
                /\ \A k \in DOMAIN db : db[k] = c.before[k]
                /\ \A x \in Idents :
                      IF x \in Deleted(c)
                      THEN GetOne(db, id, NewIdent(x)).Status = StatusMissing
                      ELSE GetOne(db, id, NewIdent(x))
                              = GetOne(c.before, id, NewIdent(x))

C8_Witness ==
    \E w \in Workers :
        /\ Done(w, "Del") /\ call[w].err = ErrNil
        /\ Deleted(call[w]) # {}
        /\ \E x \in Idents \ Deleted(call[w]) :
              HasForward(db, call[w].def.ID, x)

----------------------------------------------------------------------------
(* C9: after UpdateDef renames t to t2, GetDef(t) returns ErrNoDef and     *)
(* GetDef(t2) returns the definition with the id it had and the new        *)
(* configuration, and Get under the renamed definition returns the         *)
(* mappings assigned before.                                               *)
Renamed(w) ==
    /\ Done(w, "UpdateDef") /\ call[w].err = ErrNil
    /\ call[w].name # call[w].def.Name

C9_Rename ==
    \A w \in Workers :
        Renamed(w) =>
            LET c == call[w]
                old == GetDef(c.before, c.name)
                new == GetDef(db, c.def.Name)
            IN  /\ GetDef(db, c.name).err = ErrNoDef
                /\ new.err = ErrNil
                /\ new.def.ID = old.def.ID
                /\ new.def = c.def
                /\ \A x \in Idents :
                      GetOne(db, new.def.ID, NewIdent(x))
                          = GetOne(c.before, old.def.ID, NewIdent(x))

C9_Witness ==
    \E w \in Workers :
        /\ Renamed(w)
        /\ \E x \in Idents : HasForward(db, call[w].def.ID, x)

----------------------------------------------------------------------------
----------------------------------------------------------------------------
\* the number a decimal alias stands for (strconv.ParseInt by inversion)
Decimals == [n \in 0..MaxAttempts |-> FormatInt(n)]

AliasNumber(a) == CHOOSE n \in DOMAIN Decimals : Decimals[n] = a

InBatchCall(w) == pc[w] \in {"gen_get", "gen_new", "gen_exists", "gen_mset", "get_get"}

(* C11: Gen and Get return a list as long as the input whose entry i       *)
(* carries input identifier i; entries are handled in input order, an      *)
(* entry once handled is not touched again, and in a seq definition the    *)
(* aliases created within one batch strictly increase with the position.   *)
C11_InputOrder ==
    /\ [] (\A w \in Workers :
            ((Done(w, "Gen") \/ Done(w, "Get")) /\ call[w].err = ErrNil) =>
                LET c == call[w]
                IN  /\ Len(c.idents) = Len(c.req)
                    /\ \A i \in DOMAIN c.req : c.idents[i].Ident = c.req[i].Ident
                    /\ (c.op = "Gen" /\ c.def.Type = "seq") =>
                          \A i, j \in DOMAIN c.idents :
                              (/\ i < j
                               /\ c.idents[i].Status = StatusCreated
                               /\ c.idents[j].Status = StatusCreated)
                              => AliasNumber(c.idents[i].Alias)
                                    < AliasNumber(c.idents[j].Alias))
    /\ [][\A w \in Workers :
            (InBatchCall(w) /\ pc'[w] # "idle") =>
                /\ call'[w].i \in {call[w].i, call[w].i + 1}
                /\ \A k \in DOMAIN call[w].idents :
                      k # call[w].i => call'[w].idents[k] = call[w].idents[k]]_vars

C11_Witness ==
    \E w \in Workers :
        /\ Done(w, "Gen") /\ call[w].err = ErrNil /\ call[w].def.Type = "seq"
        /\ Len(call[w].idents) = 2
        /\ call[w].idents[1].Status = StatusCreated
        /\ call[w].idents[2].Status = StatusCreated
        /\ call[w].idents[1].Ident # call[w].idents[2].Ident
        /\ AliasNumber(call[w].idents[2].Alias) = 2

----------------------------------------------------------------------------
\* worker w takes a step
Steps(w) == pc'[w] # pc[w] \/ call'[w] # call[w]

(* C12: Get changes nothing in the database: no step of a Get call writes, *)
(* and when the call returns the forward and reverse tables, the sequence  *)
(* counters and the definition records are what they were when it began.   *)
C12_GetReadOnly ==
    /\ [] (\A w \in Workers :
            (pc[w] = "done" /\ call[w].op = "Get") => db = call[w].before)
    /\ [][\A w \in Workers :
            (call[w].op = "Get" /\ Steps(w)) => db' = db]_vars

C12_Witness ==
    \E w \in Workers :
        /\ Done(w, "Get") /\ call[w].err = ErrNil
        /\ EXISTS(db, SeqGenKey(call[w].def))
        /\ \E i, j \in DOMAIN call[w].idents :
              /\ call[w].idents[i].Status = StatusExists
              /\ call[w].idents[j].Status = StatusMissing

----------------------------------------------------------------------------
\* the last position of identifier x in a batch
LastOcc(list, x) ==
    CHOOSE i \in DOMAIN list :
        list[i].Ident = x /\ \A j \in DOMAIN list : list[j].Ident = x => j <= i

PutIdents(c) == {c.req[i].Ident : i \in DOMAIN c.req} \ {""}

(* C13: after a Put that returns without error every non-empty identifier  *)
(* of the batch maps to the alias of its last pair and that alias is       *)
(* marked in reverse, whatever the identifier or the alias held before;    *)
(* Get of the identifier returns exists with that alias.                   *)
C13_PutOverwrites ==
    \A w \in Workers :
        (Done(w, "Put") /\ call[w].err = ErrNil) =>
            LET c == call[w]
                id == c.def.ID
            IN  \A x \in PutIdents(c) :
                    LET alias == c.req[LastOcc(c.req, x)].Alias
                    IN  /\ alias # ""
                        /\ HasForward(db, id, x)
                        /\ Forward(db, id, x) = alias
                        /\ HasReverse(db, id, alias)
                        /\ GetOne(db, id, NewIdent(x))
                              = [Ident |-> x, Alias |-> alias, Status |-> StatusExists]

C13_Witness ==
    \E w \in Workers :
        /\ Done(w, "Put") /\ call[w].err = ErrNil
        /\ \E x \in PutIdents(call[w]) :
              /\ HasForward(call[w].before, call[w].def.ID, x)
              /\ Forward(call[w].before, call[w].def.ID, x)
                    # Forward(db, call[w].def.ID, x)
              /\ Holders(call[w].before, call[w].def.ID,
                         Forward(db, call[w].def.ID, x)) \ {x} # {}

----------------------------------------------------------------------------
\* the pairs Put refuses: a non-empty identifier with an empty alias
BadPairs(pairs) == {i \in DOMAIN pairs : pairs[i].Ident # "" /\ pairs[i].Alias = ""}

Lowest(S) == CHOOSE i \in S : \A j \in S : i <= j

RECURSIVE Written(_, _, _, _)
\* the database after the first n pairs have been written one by one
Written(d, id, pairs, n) ==
    IF n = 0 THEN d
    ELSE LET e == Written(d, id, pairs, n - 1)
             p == pairs[n]
         IN  IF p.Ident = "" THEN e
             ELSE [k \in DOMAIN e \cup {mkKey(id, p.Ident), mkAlias(id, p.Alias)} |->
                      IF k = mkKey(id, p.Ident) THEN p.Alias
                      ELSE IF k = mkAlias(id, p.Alias) THEN Marker ELSE e[k]]

(* C14: Put returns the empty-alias error exactly when some pair has a     *)
(* non-empty identifier and an empty alias; the database then holds what   *)
(* the pairs before the first such pair wrote and nothing of that pair or  *)
(* of the pairs after it.                                                  *)
C14_PutFailFast ==
    \A w \in Workers :
        Done(w, "Put") =>
            LET c == call[w]
                bad == BadPairs(c.req)
            IN  IF bad = {} THEN c.err = ErrNil
                ELSE /\ c.err = ErrEmptyAlias
                     /\ db = Written(c.before, c.def.ID, c.req, Lowest(bad) - 1)

C14_Witness ==
    \E w \in Workers :
        /\ Done(w, "Put") /\ call[w].err = ErrEmptyAlias
        /\ Lowest(BadPairs(call[w].req)) = 2
        /\ db # call[w].before

----------------------------------------------------------------------------
\* the call of worker w has returned from the registry operation op
RegDone(w, op) == pc[w] = "done" /\ call[w].op = op

(* C15 (as stated): CreateDef with a name that has an active name binding  *)
(* fails with ErrDefExists and leaves the whole database unchanged.        *)
C15_Original ==
    \A w \in Workers :
        (RegDone(w, "CreateDef") /\ EXISTS(call[w].before, mkDef(call[w].name)))
        => (call[w].err = ErrDefExists /\ db = call[w].before)

(* C15 (amended): CreateDef of a definition that passes validation, with a *)
(* name that has an active name binding, fails with ErrDefExists; CreateDef *)
(* with a bound name, valid or not, leaves the whole database unchanged:   *)
(* the id counter, the name binding, the definition value and the sequence *)
(* counter.                                                                *)
C15_DefExists ==
    \A w \in Workers :
        (RegDone(w, "CreateDef") /\ EXISTS(call[w].before, mkDef(call[w].name)))
        => /\ validateDef(call[w].def) = ErrNil => call[w].err = ErrDefExists
           /\ call[w].err # ErrNil
           /\ db = call[w].before

C15_Witness ==
    \E w \in Workers :
        /\ RegDone(w, "CreateDef") /\ call[w].err = ErrDefExists
        /\ call[w].def.Type = "seq"
        /\ EXISTS(db, mkSeq(db[mkDef(call[w].name)]))
        /\ call[w].def.Offset
              # Unmarshal(db[mkValue(db[mkDef(call[w].name)])]).Offset

----------------------------------------------------------------------------
\* the characters of [A-Za-z0-9._-]
PatternChars ==
    {"A", "B", "C", "D", "E", "F", "G", "H", "I", "J", "K", "L", "M",
     "N", "O", "P", "Q", "R", "S", "T", "U", "V", "W", "X", "Y", "Z",
     "a", "b", "c", "d", "e", "f", "g", "h", "i", "j", "k", "l", "m",
     "n", "o", "p", "q", "r", "s", "t", "u", "v", "w", "x", "y", "z",
     "0", "1", "2", "3", "4", "5", "6", "7", "8", "9", ".", "_", "-"}

\* the definitions the registry must turn down
Invalid(def) ==
    \/ def.Name = <<>>
    \/ \E i \in DOMAIN def.Name : def.Name[i] \notin PatternChars
    \/ def.Type = ""
    \/ def.Type \notin {"rand", "uuid", "seq"}
    \/ def.Type = "rand" /\ (def.Minlen < 4 \/ Len(def.Chars) < 8)

ValidationErrors ==
    {"name required", ErrBadDefName, "type required", "unknown type",
     "rand min length too small", "too few chars for rand"}

(* C16: CreateDef and UpdateDef return a validation error and leave the    *)
(* database unchanged exactly when the name is empty or has a character    *)
(* outside [A-Za-z0-9._-], the type is empty or not one of rand, uuid,     *)
(* seq, or the type is rand with minlen < 4 or fewer than 8 chars.         *)
C16_Validation ==
    \A w \in Workers :
        ((RegDone(w, "CreateDef") \/ RegDone(w, "UpdateDef"))
            /\ call[w].err # ErrNoDef)
        => IF Invalid(call[w].def)
           THEN call[w].err \in ValidationErrors /\ db = call[w].before
           ELSE call[w].err \notin ValidationErrors

C16_Witness ==
    \E w \in Workers :
        /\ RegDone(w, "UpdateDef")
        /\ call[w].err = "too few chars for rand"
        /\ call[w].def.Minlen = 4 /\ Len(call[w].def.Chars) = 7

----------------------------------------------------------------------------
(* C17: after DelDef(name) has succeeded GetDef(name) returns ErrNoDef,    *)
(* the definition value is still stored under its id, now flagged deleted, *)
(* and GetDefs returns it; DelDef of a name without a binding returns      *)
(* ErrNoDef and changes nothing.                                           *)
C17_SoftDelete ==
    \A w \in Workers :
        RegDone(w, "DelDef") =>
            LET c == call[w]
                old == GetDef(c.before, c.name)
            IN  IF EXISTS(c.before, mkDef(c.name))
                THEN /\ c.err = ErrNil
                     /\ GetDef(db, c.name).err = ErrNoDef
                     /\ EXISTS(db, mkValue(old.def.ID))
                     /\ Unmarshal(db[mkValue(old.def.ID)])
                           = [old.def EXCEPT !.Deleted = TRUE]
                     /\ db[mkValue(old.def.ID)] \in GetDefs(db)
                     /\ Cardinality(GetDefs(db)) = Cardinality(GetDefs(c.before))
                ELSE c.err = ErrNoDef /\ db = c.before

C17_Witness ==
    \E w \in Workers :
        /\ RegDone(w, "DelDef") /\ call[w].err = ErrNil
        /\ Cardinality(GetDefs(db)) = 2
        /\ \E b \in GetDefs(db) : ~b.archived

----------------------------------------------------------------------------
\* the value of the id counter: ids 1..DefIdCounter(d) have been allocated
DefIdCounter(d) ==
    IF EXISTS(d, mkInternal("def:id")) THEN d[mkInternal("def:id")] ELSE 0

\* worker w holds an id it was given and has not stored yet
HoldsNewId(w) == pc[w] = "create_mset"

(* C18: the id a CreateDef call is given differs from every id given       *)
(* before: it is one more than the counter, no value is stored under it,   *)
(* soft-deleted or not, and no concurrent CreateDef holds it; the id       *)
(* stored in a definition value is the id it is stored under and never     *)
(* changes, and no value is ever removed.                                  *)
C18_FreshIds ==
    /\ [] (\A w \in Workers :
            HoldsNewId(w) =>
                /\ call[w].def.ID \in 1..DefIdCounter(db)
                /\ ~EXISTS(db, mkValue(call[w].def.ID))
                /\ \A v \in Workers \ {w} :
                      HoldsNewId(v) => call[v].def.ID # call[w].def.ID)
    /\ [] (\A id \in DefIds : EXISTS(db, mkValue(id)) => db[mkValue(id)].id = id)
    /\ [][/\ DefIdCounter(db') >= DefIdCounter(db)
          /\ \A w \in Workers :
                (pc[w] = "create_incr" /\ pc'[w] = "create_mset")
                    => call'[w].def.ID = DefIdCounter(db) + 1
          /\ \A id \in DefIds :
                EXISTS(db, mkValue(id)) =>
                    EXISTS(db', mkValue(id)) /\ db'[mkValue(id)].id = id]_vars

C18_Witness ==
    /\ \A w \in Workers :
          RegDone(w, "CreateDef") /\ call[w].err = ErrNil
              /\ call[w].name = <<"t">>
    /\ \E id \in DefIds : EXISTS(db, mkValue(id)) /\ db[mkValue(id)].archived

----------------------------------------------------------------------------
\* the ids of the stored definitions named n that are not flagged deleted
ActiveNamed(d, n) ==
    {id \in DefIds : /\ EXISTS(d, mkValue(id))
                     /\ ~d[mkValue(id)].archived
                     /\ d[mkValue(id)].name = n}

(* C19: with CreateDef, UpdateDef and DelDef run one at a time, at most    *)
(* one stored definition that is not flagged deleted carries a given name, *)
(* and the name binding points to it.                                      *)
C19_UniqueNames ==
    AllIdle =>
        \A n \in RegNames :
            /\ Cardinality(ActiveNamed(db, n)) <= 1
            /\ ActiveNamed(db, n) # {} =>
                  (EXISTS(db, mkDef(n)) /\ db[mkDef(n)] \in ActiveNamed(db, n))

----------------------------------------------------------------------------
(* C20: in every reachable state, also when DelDef interleaves with an     *)
(* UpdateDef of the same definition, GetDef(name) returns no definition    *)
(* whose deleted flag is true.                                             *)
C20_DeletedUnreachable ==
    \A n \in RegNames :
        GetDef(db, n).err = ErrNil => ~GetDef(db, n).def.Deleted

----------------------------------------------------------------------------
(* C21: after UpdateDef(name, newDef) has succeeded the definition bound   *)
(* to newDef's name has the id that was bound to name before the call,     *)
(* whatever id the request body carried.                                   *)
C21_IdPreserved ==
    \A w \in Workers :
        (RegDone(w, "UpdateDef") /\ call[w].err = ErrNil) =>
            LET c == call[w]
                new == GetDef(db, c.req[1].Name)
            IN  /\ new.err = ErrNil
                /\ new.def.ID = c.before[mkDef(c.name)]
                /\ db[mkDef(c.req[1].Name)] = c.before[mkDef(c.name)]

C21_Witness ==
    \E w \in Workers :
        /\ RegDone(w, "UpdateDef") /\ call[w].err = ErrNil
        /\ call[w].req[1].ID = 7
        /\ call[w].name # call[w].req[1].Name
        /\ GetDef(db, call[w].req[1].Name).def.ID = 1

----------------------------------------------------------------------------
RECURSIVE Committed(_, _, _, _)
\* the database after the entries Gen created among the first n have been
\* committed one by one
Committed(d, id, list, n) ==
    IF n = 0 THEN d
    ELSE LET e == Committed(d, id, list, n - 1)
             p == list[n]
         IN  IF p.Status # StatusCreated THEN e
             ELSE [k \in DOMAIN e \cup {mkKey(id, p.Ident), mkAlias(id, p.Alias)} |->
                      IF k = mkKey(id, p.Ident) THEN p.Alias
                      ELSE IF k = mkAlias(id, p.Alias) THEN Marker ELSE e[k]]

GenFailed(w) == Done(w, "Gen") /\ call[w].err = ErrMaxAttemptsReached

(* C22: when Gen fails with ErrMaxAttemptsReached at entry i, the entries  *)
(* after i are as they came in and nothing was written for them or for     *)
(* entry i, the entries created before i are committed, and the call ends  *)
(* there: its only step left is the response with that one error.          *)
C22_GenFailFast ==
    /\ [] (\A w \in Workers :
            GenFailed(w) =>
                LET c == call[w]
                IN  /\ c.i \in DOMAIN c.idents
                    /\ \A k \in DOMAIN c.idents : k >= c.i => c.idents[k] = c.req[k]
                    /\ \A k \in DOMAIN c.idents :
                          (k < c.i /\ c.idents[k].Status = StatusCreated) =>
                              /\ Forward(db, c.def.ID, c.idents[k].Ident) = c.idents[k].Alias
                              /\ HasReverse(db, c.def.ID, c.idents[k].Alias)
                    /\ db = Committed(c.before, c.def.ID, c.idents, c.i - 1))
    /\ [][\A w \in Workers :
            (GenFailed(w) /\ Steps(w)) => (pc'[w] = "idle" /\ db' = db)]_vars

C22_Witness ==
    \E w \in Workers :
        /\ GenFailed(w)
        /\ call[w].i = 1 /\ Len(call[w].idents) = 2
        /\ call[w].idents[2].Ident # ""
        /\ HasForward(db, call[w].def.ID, call[w].idents[2].Ident)

----------------------------------------------------------------------------
(* C23: the commit of Gen is conditional: when the forward entry of the    *)
(* identifier or the reverse entry of the candidate has been written since *)
(* Gen looked, the write is not applied and Gen generates a new candidate. *)
C23_ConditionalCommit ==
    [][\A w \in Workers :
        (/\ pc[w] = "gen_mset" /\ Steps(w)
         /\ \/ HasForward(db, call[w].def.ID, call[w].idents[call[w].i].Ident)
            \/ HasReverse(db, call[w].def.ID, call[w].alias))
        => (db' = db /\ pc'[w] = "gen_new")]_vars

----------------------------------------------------------------------------
(* C24: under interleaved Gen calls on one definition no reservation is    *)
(* orphaned: every alias in reverse is the forward value of at least one   *)
(* identifier, in every reachable state.                                   *)
C24_NoOrphans ==
    \A id \in DefIds, a \in AliasUniverse :
        HasReverse(db, id, a) => Holders(db, id, a) # {}

----------------------------------------------------------------------------
\* the forward key of every identifier under every definition id
ForwardKey == [id \in DefIds |-> [x \in Idents |-> mkKey(id, x)]]

(* C25: with Gen and Del run one at a time and no Put, no two distinct     *)
(* identifiers hold the same alias in forward in any state, and Gen        *)
(* commits a candidate only when reverse has no entry for it.              *)
C25_UniqueWithoutPut ==
    /\ [] (\A id \in DefIds : \A x, y \in Idents :
            (x # y /\ ForwardKey[id][x] \in DOMAIN db /\ ForwardKey[id][y] \in DOMAIN db)
                => db[ForwardKey[id][x]] # db[ForwardKey[id][y]])
    /\ [][\A w \in Workers :
            (pc[w] = "gen_mset" /\ Steps(w))
                => ~HasReverse(db, call[w].def.ID, call[w].alias)]_vars

C25_Witness ==
    \E w \in Workers :
        /\ Done(w, "Gen") /\ call[w].err = ErrNil /\ call[w].def.Type = "seq"
        /\ \A x \in Idents \ {""} : HasForward(db, call[w].def.ID, x)
        /\ \E i \in DOMAIN call[w].idents :
              /\ call[w].idents[i].Status = StatusCreated
              /\ AliasNumber(call[w].idents[i].Alias) = 3

----------------------------------------------------------------------------
\* the counter a seq definition draws from: the value under the key
\* SeqGen.New increments, and the definition's offset before the first draw
SeqCounter(d, def) ==
    IF EXISTS(d, SeqGenKey(def)) THEN d[SeqGenKey(def)] ELSE def.Offset

CreatedIn(list) == Cardinality({i \in DOMAIN list : list[i].Status = StatusCreated})

(* C26: in a seq definition a Gen call advances the counter by one for     *)
(* each result with status created and by nothing for a result with status *)
(* exists, starting from the offset the definition was created with.       *)
C26_CounterCounts ==
    \A w \in Workers :
        (Done(w, "Gen") /\ call[w].err = ErrNil /\ call[w].def.Type = "seq") =>
            SeqCounter(db, call[w].def)
                = SeqCounter(call[w].before, call[w].def) + CreatedIn(call[w].idents)

----------------------------------------------------------------------------
(* C27: a seq Gen never finds its candidate present in reverse: it commits *)
(* on its first attempt and never returns ErrMaxAttemptsReached.           *)
C27_SeqNoRetry ==
    \A w \in Workers :
        call[w].def.Type = "seq" =>
            /\ pc[w] = "gen_exists" =>
                  (call[w].attempt = 1
                      /\ ~HasReverse(db, call[w].def.ID, call[w].alias))
            /\ Done(w, "Gen") => call[w].err # ErrMaxAttemptsReached

----------------------------------------------------------------------------
(* C28: over the lifetime of a seq definition, renames included, every     *)
(* alias Gen creates is a larger integer than the one it created before.   *)
C28_SeqIncreasing ==
    [][\A w \in Workers :
        (/\ pc[w] = "gen_mset" /\ Steps(w)
         /\ call[w].def.Type = "seq"
         /\ call[w].def.ID \in DOMAIN issued)
        => AliasNumber(call[w].alias) > AliasNumber(issued[call[w].def.ID])]_vars

----------------------------------------------------------------------------
\* the entries of the request of call c that carry the empty identifier
EmptyAt(c) == {j \in DOMAIN c.req : c.req[j].Ident = ""}

(* C29: Gen and Put pass over every entry whose identifier is empty: the   *)
(* entry keeps the status and the alias it came with, a call made only of  *)
(* such entries leaves the database as it was, the entries that are not    *)
(* empty are handled all the same, and no forward key of the empty         *)
(* identifier is ever written.                                             *)
C29_SkipsEmpty ==
    /\ \A id \in DefIds : ForwardKey[id][""] \notin DOMAIN db
    /\ \A w \in Workers :
        LET c == call[w]
        IN  c.op \in {"Gen", "Put"} =>
              /\ \A j \in EmptyAt(c) : c.idents[j] = c.req[j]
              /\ (Done(w, c.op) /\ EmptyAt(c) = DOMAIN c.req) =>
                    (c.err = ErrNil /\ db = c.before)
              /\ (Done(w, c.op) /\ c.err = ErrNil) =>
                    \A j \in DOMAIN c.req \ EmptyAt(c) :
                        /\ HasForward(db, c.def.ID, c.req[j].Ident)
                        /\ c.op = "Gen" =>
                              c.idents[j].Status \in {StatusCreated, StatusExists}

\* a Gen whose first entry was empty and whose second created an alias has
\* returned, and a Put whose first pair was empty has stored its second
C29_Witness ==
    /\ prev.op = "Gen" /\ Len(prev.out) = 2
    /\ prev.out[1].Ident = "" /\ prev.out[1].Status = StatusUnset
    /\ prev.out[2].Status = StatusCreated
    /\ \E w \in Workers :
          /\ Done(w, "Put") /\ call[w].err = ErrNil /\ Len(call[w].req) = 2
          /\ call[w].req[1].Ident = "" /\ call[w].req[2].Ident # ""
          /\ Forward(db, call[w].def.ID, call[w].req[2].Ident) = call[w].req[2].Alias

----------------------------------------------------------------------------
\* worker w is at the head of Del's loop, on an identifier that has no
\* forward entry
DelMiss(w) ==
    /\ pc[w] = "del_get" /\ call[w].i <= Len(call[w].idents)
    /\ ForwardKey[call[w].def.ID][call[w].idents[call[w].i].Ident] \notin DOMAIN db

(* C30: Del of an identifier that has no forward entry writes nothing and  *)
(* goes on with the next identifier: the call ends without error, with     *)
(* every identifier of the batch handled, and a call that found none of    *)
(* its identifiers leaves the database as it was.                          *)
C30_DelSkipsMissing ==
    /\ [] (\A w \in Workers :
            Done(w, "Del") =>
                LET c == call[w]
                IN  /\ c.err = ErrNil
                    /\ c.i = Len(c.req) + 1
                    /\ \A j \in DOMAIN c.req :
                          ForwardKey[c.def.ID][c.req[j].Ident] \notin DOMAIN db
                    /\ Deleted(c) = {} => db = c.before)
    /\ [][\A w \in Workers :
            (DelMiss(w) /\ Steps(w)) =>
                /\ db' = db
                /\ pc'[w] = "del_get"
                /\ call'[w] = [call[w] EXCEPT !.i = call[w].i + 1]]_vars

\* a Del has returned whose first identifier had no forward entry and whose
\* second had one, which is gone
C30_Witness ==
    \E w \in Workers :
        LET c == call[w]
        IN  /\ Done(w, "Del") /\ c.err = ErrNil /\ Len(c.req) = 2
            /\ ~HasForward(c.before, c.def.ID, c.req[1].Ident)
            /\ HasForward(c.before, c.def.ID, c.req[2].Ident)
            /\ ~HasForward(db, c.def.ID, c.req[2].Ident)

----------------------------------------------------------------------------
(* C31: whatever other calls run between Del's GET and its DEL, the DEL    *)
(* removes a forward entry only together with the reverse entry of the     *)
(* alias the forward entry holds when it is removed.                       *)
C31_DelRemovesPair ==
    [][\A w \in Workers :
        (/\ pc[w] = "del_del" /\ Steps(w)
         /\ HasForward(db, call[w].def.ID, call[w].idents[call[w].i].Ident))
        => ~HasReverse(db', call[w].def.ID,
                       Forward(db, call[w].def.ID, call[w].idents[call[w].i].Ident))]_vars

----------------------------------------------------------------------------
\* the registry keys of every name and of every definition id
DefKey == [n \in RegNames |-> mkDef(n)]
ValueKey == [id \in DefIds |-> mkValue(id)]
SeqKey == [id \in DefIds |-> mkSeq(id)]

\* the names bound in database d
Bound(d) == {n \in RegNames : DefKey[n] \in DOMAIN d}

(* C32: in every state, the intermediate states of concurrent CreateDef,   *)
(* UpdateDef and DelDef calls included, every bound name points to an id   *)
(* under which a definition value is stored, so GetDef never finds the     *)
(* value missing; no value is ever removed; and the step that stores the   *)
(* value of a new definition binds its name and, for a seq definition,     *)
(* writes its counter key with the offset, all at once.                    *)
C32_BoundNamesHaveValues ==
    /\ [] (\A n \in Bound(db) :
            /\ db[DefKey[n]] \in DefIds
            /\ ValueKey[db[DefKey[n]]] \in DOMAIN db)
    /\ [] (\A w \in Workers : call[w].err # "panic")
    /\ [][\A id \in DefIds :
            /\ ValueKey[id] \in DOMAIN db => ValueKey[id] \in DOMAIN db'
            /\ (ValueKey[id] \notin DOMAIN db /\ ValueKey[id] \in DOMAIN db') =>
                  LET v == db'[ValueKey[id]]
                  IN  /\ v.name \in Bound(db') /\ db'[DefKey[v.name]] = id
                      /\ v.type = "seq" =>
                            (SeqKey[id] \in DOMAIN db' /\ db'[SeqKey[id]] = v.offset)
                      /\ SeqKey[id] \notin DOMAIN db]_vars

\* a CreateDef has just stored a seq definition while the other worker is
\* between the DEL and the MSET of a renaming UpdateDef
C32_Witness ==
    \E w, u \in Workers :
        /\ Done(w, "CreateDef") /\ call[w].err = ErrNil /\ call[w].def.Type = "seq"
        /\ ValueKey[call[w].def.ID] \in DOMAIN db
        /\ pc[u] = "update_mset" /\ call[u].name # call[u].def.Name
        /\ call[u].name \notin Bound(db)

----------------------------------------------------------------------------
(* C33: of two concurrent CreateDef calls with the same name at most one   *)
(* succeeds and the other fails with ErrDefExists, so no two stored        *)
(* definitions that are not flagged deleted carry that name.               *)
C33_OneCreateWins ==
    \A w, u \in Workers :
        (/\ w # u
         /\ RegDone(w, "CreateDef") /\ RegDone(u, "CreateDef")
         /\ call[w].name = call[u].name
         /\ call[w].err = ErrNil)
        => /\ call[u].err = ErrDefExists
           /\ Cardinality(ActiveNamed(db, call[w].name)) <= 1

----------------------------------------------------------------------------
\* the reverse key of every alias under every definition id
ReverseKey == [id \in DefIds |-> [a \in AliasUniverse |-> mkAlias(id, a)]]

\* the forward and reverse tables of definition id in database d
Tables(d, id) ==
    [k \in ({ForwardKey[id][x] : x \in Idents}
                \cup {ReverseKey[id][a] : a \in AliasUniverse}) \cap DOMAIN d |-> d[k]]

(* C34: Gen, Put and Del on one definition leave the forward and reverse   *)
(* tables of every definition with another id as they were when the call   *)
(* began, whether the call succeeds or not.                                *)
C34_OtherDefsUntouched ==
    \A w \in Workers :
        call[w].op \in {"Gen", "Put", "Del"} =>
            \A id \in DefIds \ {call[w].def.ID} :
                Tables(db, id) = Tables(call[w].before, id)

\* a Put under t2 has stored an alias that t holds too, for another
\* identifier, and both definitions keep their entries
C34_Witness ==
    \E w \in Workers : \E a \in AliasUniverse :
        /\ Done(w, "Put") /\ call[w].err = ErrNil /\ call[w].def.ID = 2
        /\ call[w].req[1].Alias = a
        /\ HasReverse(db, 1, a) /\ HasReverse(db, 2, a)
        /\ Holders(db, 1, a) # {} /\ Holders(db, 2, a) # {}
        /\ Holders(db, 1, a) # Holders(db, 2, a)
        /\ Tables(call[w].before, 2) # Tables(db, 2)

----------------------------------------------------------------------------
(* C35: DelDef changes the name binding and the definition value and no    *)
(* other key, so the forward entries, the reverse entries and the sequence *)
(* counters of the deleted id stay; a definition created afterwards, under *)
(* the same name or not, has no forward and no reverse entry, and Get      *)
(* under it returns missing for the identifiers assigned under the old id. *)
C35_DelDefKeepsTables ==
    \A w \in Workers :
        LET c == call[w]
        IN  /\ (RegDone(w, "DelDef") /\ c.err = ErrNil) =>
                  /\ DOMAIN db \cup {DefKey[c.name]} = DOMAIN c.before
                  /\ \A k \in DOMAIN db \ {ValueKey[c.def.ID]} : db[k] = c.before[k]
                  /\ Tables(db, c.def.ID) = Tables(c.before, c.def.ID)
            /\ (RegDone(w, "CreateDef") /\ c.err = ErrNil) =>
                  /\ Tables(db, c.def.ID) = <<>>
                  /\ \A x \in Idents :
                        GetOne(db, c.def.ID, NewIdent(x)).Status = StatusMissing
            /\ (Done(w, "Get") /\ c.err = ErrNil) =>
                  \A j \in DOMAIN c.idents :
                      ~HasForward(db, c.def.ID, c.req[j].Ident)
                          => c.idents[j].Status = StatusMissing

\* Get under the second definition named t has returned missing for an
\* identifier that still has its forward and reverse entries under the
\* first, deleted one
C35_Witness ==
    \E w \in Workers :
        /\ Done(w, "Get") /\ call[w].err = ErrNil /\ call[w].def.ID = 2
        /\ call[w].idents[1].Status = StatusMissing
        /\ db[ValueKey[1]].archived /\ db[ValueKey[1]].name = call[w].name
        /\ HasForward(db, 1, call[w].req[1].Ident)
        /\ HasReverse(db, 1, Forward(db, 1, call[w].req[1].Ident))

----------------------------------------------------------------------------
InGen(w) == pc[w] \in {"gen_get", "gen_new", "gen_exists", "gen_mset"}

(* C36: every Gen call that has started returns; for one identifier the    *)
(* generator is invoked at most MaxAttempts times; the loop comes back for *)
(* another candidate only when the last one was found in reverse; and Gen  *)
(* returns ErrMaxAttemptsReached when MaxAttempts candidates have been     *)
(* turned down, never after fewer.                                         *)
C36_GenTerminates ==
    /\ \A w \in GenWorkers : InGen(w) ~> (pc[w] = "done")
    /\ [] (\A w \in GenWorkers :
            /\ InGen(w) => call[w].attempt \in 0..MaxAttempts
            /\ pc[w] \in {"gen_exists", "gen_mset"} => call[w].attempt >= 1
            /\ (pc[w] = "gen_new" /\ call[w].attempt >= 1) =>
                  HasReverse(db, call[w].def.ID, call[w].alias)
            /\ GenFailed(w) =>
                  /\ call[w].attempt = MaxAttempts
                  /\ HasReverse(db, call[w].def.ID, call[w].alias))
    /\ [][\A w \in GenWorkers :
            (pc[w] = "gen_new" /\ Steps(w)) =>
                IF call[w].attempt = MaxAttempts
                THEN /\ pc'[w] = "done" /\ call'[w].err = ErrMaxAttemptsReached
                     /\ db' = db
                ELSE /\ pc'[w] = "gen_exists"
                     /\ call'[w].attempt = call[w].attempt + 1]_vars

\* a Gen has given up on its second identifier at the hundredth candidate,
\* the first identifier of the batch having taken the only alias
C36_Witness ==
    \E w \in GenWorkers :
        /\ GenFailed(w) /\ call[w].attempt = MaxAttempts /\ call[w].i = 2
        /\ call[w].idents[1].Status = StatusCreated
        /\ ~HasForward(db, call[w].def.ID, call[w].idents[2].Ident)

----------------------------------------------------------------------------
\* a Redis command of the call of worker w fails at this step
BackendFails(w) == GenFails(w) \/ GetFails(w) \/ PutFails(w) \/ DelFails(w)

\* worker w is about to GET the forward key of an identifier that has none
AtMiss(w) ==
    /\ pc[w] \in {"gen_get", "get_get", "del_get"}
    /\ call[w].i <= Len(call[w].idents)
    /\ call[w].idents[call[w].i].Ident # ""
    /\ ~HasForward(db, call[w].def.ID, call[w].idents[call[w].i].Ident)

(* C37: when a Redis command of Gen, Get, Put or Del fails with an error   *)
(* other than key-not-found the call returns that error at once, and a     *)
(* call that has returned writes nothing more; a GET that finds no key     *)
(* is not an error: Get marks the entry missing, Del passes on to the next *)
(* identifier and Gen goes to generate.                                    *)
C37_ErrorsPropagate ==
    /\ [] (\A w \in Workers : call[w].err = ErrBackend => pc[w] = "done")
    /\ [][\A w \in Workers :
            /\ BackendFails(w) =>
                  (pc'[w] = "done" /\ call'[w].err = ErrBackend)
            /\ pc[w] = "done" => db' = db
            /\ (AtMiss(w) /\ Steps(w) /\ ~BackendFails(w)) =>
                  /\ call'[w].err = ErrNil /\ pc'[w] # "done" /\ db' = db
                  /\ pc[w] = "get_get" =>
                        call'[w].idents[call[w].i].Status = StatusMissing
                  /\ pc[w] = "del_get" =>
                        (pc'[w] = "del_get" /\ call'[w].i = call[w].i + 1)
                  /\ pc[w] = "gen_get" => pc'[w] = "gen_new"]_vars

\* a Gen has returned the backend's error at its second identifier, after
\* it created an alias for the first, and the second has no forward entry
C37_Witness ==
    \E w \in Workers :
        /\ Done(w, "Gen") /\ call[w].err = ErrBackend /\ call[w].i = 2
        /\ call[w].idents[1].Status = StatusCreated
        /\ HasForward(db, call[w].def.ID, call[w].idents[1].Ident)
        /\ ~HasForward(db, call[w].def.ID, call[w].idents[2].Ident)

----------------------------------------------------------------------------
(* C38: a Gen for an identifier that has no forward entry, as after Del of *)
(* it, returns status created for it, and in a seq definition the alias it *)
(* commits is not the alias the definition issued last.                    *)
C38_NoReissue ==
    /\ [] (\A w \in Workers :
            (Done(w, "Gen") /\ call[w].err = ErrNil) =>
                \A j \in DOMAIN call[w].req :
                    (/\ call[w].req[j].Ident # ""
                     /\ ~HasForward(call[w].before, call[w].def.ID, call[w].req[j].Ident)
                     /\ FirstOcc(call[w].req, call[w].req[j].Ident) = j)
                    => call[w].idents[j].Status = StatusCreated)
    /\ [][\A w \in Workers :
            (/\ pc[w] = "gen_mset" /\ Steps(w)
             /\ call[w].def.Type = "seq"
             /\ call[w].def.ID \in DOMAIN issued)
            => call[w].alias # issued[call[w].def.ID]]_vars

----------------------------------------------------------------------------
(* C39: whatever alias and status an entry of a Get batch came in with, it *)
(* goes out with status exists and the stored alias when the identifier    *)
(* has a forward entry, and with status missing and an empty alias when it *)
(* has none.                                                               *)
C39_GetResult ==
    \A w \in Workers :
        (Done(w, "Get") /\ call[w].err = ErrNil) =>
            \A j \in DOMAIN call[w].idents :
                LET r == call[w].idents[j]
                IN  IF HasForward(db, call[w].def.ID, r.Ident)
                    THEN r.Status = StatusExists
                            /\ r.Alias = Forward(db, call[w].def.ID, r.Ident)
                    ELSE r.Status = StatusMissing /\ r.Alias = ""

----------------------------------------------------------------------------
\* the line the line-delimited encoding is specified to carry for an entry
MarkedLine(ia) ==
    CASE ia.Status = StatusCreated -> "0 " \o ia.Alias
      [] ia.Status = StatusExists -> "1 " \o ia.Alias
      [] OTHER -> ""

\* the lines the handler writes for the call of worker w
Lines(w) ==
    IF call[w].op = "Gen" THEN WriteGenLines(call[w].idents)
    ELSE WriteGetLines(call[w].idents)

(* C40: in the line-delimited encoding the handler writes one line for     *)
(* each identifier of the request, in the order of the request, marked 0   *)
(* when the alias was created, 1 when it existed, and empty when the       *)
(* identifier is missing.                                                  *)
C40_LinePerIdentifier ==
    \A w \in Workers :
        ((Done(w, "Gen") \/ Done(w, "Get")) /\ call[w].err = ErrNil) =>
            /\ Len(Lines(w)) = Len(call[w].req)
            /\ \A j \in DOMAIN call[w].req :
                  j <= Len(Lines(w)) => Lines(w)[j] = MarkedLine(call[w].idents[j])

====
